---- MODULE Spec2Model ----
(***************************************************************************)
(* Model of MonkeyProTest.py: the batched concurrent runner                *)
(* execute_adb_command, its worker body run_monkey_command, the child      *)
(* processes the workers spawn, and the logger the two write to.           *)
(*                                                                         *)
(* The log is kept as one sequence per emitting thread: log[0] holds the   *)
(* lines written by the orchestrator, log[t] the lines written by the      *)
(* invocation for the t-th package.  The order inside each sequence is the *)
(* order of the logger calls of that thread.                               *)
(***************************************************************************)
EXTENDS Integers, Sequences, FiniteSets, TLC

\* ---------------------------------------------------------------- bounds
MaxPkgs == 2        \* longest package list of the runs whose children print
MaxLines == 1       \* most output lines a printing child writes
MaxLong == 5        \* longest package list of the runs whose children are silent
MaxWorkers == 2     \* largest max_workers argument
MaxB == 4           \* largest batch size of the partition-only runs
MaxN == 5           \* longest package list of the partition-only runs
MaxBuilds == 2      \* most commands built in a command-builder run
MaxTime == 3        \* last second of the clock in a log-handler run
MaxEmits == 3       \* most emit calls in a log-handler run
MaxBytes == 2       \* maxBytes of the handler, scaled down
MaxFiles == 2       \* maxFiles of the handler, scaled down

\* ------------------------------------------------------ program constants
DefaultBatchSize == 4
Minutes == 5
Throttle == 500

Device == "7NH26450903CG"
ClassPath == "/sdcard/monkeyq.jar:/sdcard/framework.jar:/sdcard/fastbot-thirdpart.jar"

AllPkgs == <<"com.a", "com.b", "com.c", "com.d", "com.e", "com.f", "com.g">>
NoPkg == "-"
Orch == 0
Max(a, b) == IF a > b THEN a ELSE b
TaskIds == 1..Max(MaxPkgs, MaxLong)
Stamps == 1..MaxTime

VARIABLES
    package_name,   \* the package_name argument: "all" or one package
    installed,      \* what "pm list packages" reports
    max_workers,    \* the max_workers argument
    child_lines,    \* environment: the most lines a child of this run writes
    pc,             \* position of the orchestrator thread
    packages,       \* local packages
    batch_size,     \* local batch_size
    i,              \* loop variable of range(0, len(packages), batch_size)
    batch,          \* local batch
    futures,        \* local futures (ids of the submitted invocations)
    j,              \* position inside the submit / join loops (1-based)
    task,           \* per invocation: state of the worker running it
    child,          \* per invocation: the child process it spawned
    log,            \* the logger's records, per emitting thread
    batches,        \* history: the batches formed so far, in order
    delays,         \* history: number of time.sleep(delay) calls made
    built,          \* history: the commands built, each with its arguments
    now,            \* the clock, in seconds (the timestamp of a file name)
    files,          \* the log files on disk (their timestamps), oldest first
    fsize,          \* bytes held by the log file of each timestamp
    current_file,   \* TimedRotatingFileHandler.current_file (its timestamp)
    current_size,   \* TimedRotatingFileHandler.current_size
    hpc,            \* "new" before the handler is constructed, then "ready"
    emits,          \* history: number of emit calls made
    removed         \* history: the files before and the files deleted by the
                    \* latest _manage_old_files

\* the variables of the command builder and of the log file handler
aux == <<built, now, files, fsize, current_file, current_size, hpc, emits,
         removed>>

vars == <<package_name, installed, max_workers, child_lines, pc, packages, batch_size, i,
          batch, futures, j, task, child, log, batches, delays, aux>>

\* ---------------------------------------------------------------- helpers
Min(a, b) == IF a < b THEN a ELSE b

\* packages[lo:hi] of Python, lo and hi 0-based
SliceMissingLast(s, lo, hi) == SubSeq(s, lo + 1, Min(hi, Len(s)) - 1)
Slice(s, lo, hi) == SubSeq(s, lo + 1, Min(hi, Len(s)))

RECURSIVE Concat(_)
Concat(ss) == IF ss = <<>> THEN <<>> ELSE Head(ss) \o Concat(Tail(ss))

CeilDiv(n, b) == (n + b - 1) \div b

Rec(level, kind, pkg, text) ==
    [level |-> level, kind |-> kind, pkg |-> pkg, text |-> text]

BuildCmdSwapped(device, class_path, package, minutes, throttle) ==
    <<"adb", "-s", device, "shell", "CLASSPATH=" , class_path, "exec",
      "app_process", "/system/bin", "com.android.commands.monkey.Monkey",
      "-p", package, "--agent", "reuseq", "--running-minutes",
      ToString(throttle), "--throttle", ToString(minutes),
      "--pct-touch", "30", "-v", "-v">>

\* the f-string of run_monkey_command (line 269), as its sequence of pieces:
\* the literal text, cut at the blanks and before each value, and the five
\* values as formatted
BuildCmd(device, class_path, package, minutes, throttle) ==
    <<"adb", "-s", device, "shell", "CLASSPATH=" , class_path, "exec",
      "app_process", "/system/bin", "com.android.commands.monkey.Monkey",
      "-p", package, "--agent", "reuseq", "--running-minutes",
      ToString(minutes), "--throttle", ToString(throttle),
      "--pct-touch", "30", "-v", "-v">>

\* the k-th line a child writes, as its sequence of pieces: odd lines are
\* indented, every line ends with its terminator
RawLine(k) ==
    (IF k % 2 = 1 THEN <<" ">> ELSE <<>>) \o <<"line", ToString(k), "\n">>

\* str.strip(): leading and trailing whitespace removed
Whitespace == {" ", "\t", "\n", "\r"}
RECURSIVE StripLeft(_)
StripLeft(s) ==
    IF s # <<>> /\ Head(s) \in Whitespace THEN StripLeft(Tail(s)) ELSE s
RECURSIVE StripRight(_)
StripRight(s) ==
    IF s # <<>> /\ s[Len(s)] \in Whitespace
      THEN StripRight(SubSeq(s, 1, Len(s) - 1)) ELSE s
Strip(s) == StripRight(StripLeft(s))

\* line 278: the message logged for the k-th line read
LineText(k) == Strip(RawLine(k))

\* stderr=subprocess.STDOUT in the Popen call: the object's stderr attribute
PopenStderr == "None"

\* the except clauses of run_monkey_command, in order
ExceptionClasses == {"OSError", "UnicodeDecodeError", "AttributeError",
                     "CalledProcessError"}
HandlerOnlyCalledProcessError(e) ==
    IF e = "CalledProcessError" THEN "exec_failed" ELSE "escape"
Handler(e) ==
    IF e = "CalledProcessError" THEN "exec_failed"
    ELSE IF e \in ExceptionClasses THEN "unknown"
    ELSE "escape"

NoTask == [st |-> "none", read |-> 0, rc |-> -1, exc |-> "none"]
NoChild == [alive |-> "none", out |-> 0]

PkgOf(t) == packages[t]

Busy == Cardinality({t \in TaskIds : task[t].st \in {"drain", "wait"}})

\* a worker thread of the pool is free to take the next work item
WorkerAvailableSerial == Busy = 0
WorkerAvailable == Busy < max_workers

\* the work queue of the executor is first-in first-out
QueueHead(t) ==
    /\ task[t].st = "queued"
    /\ \A u \in TaskIds : u < t => task[u].st # "queued"

\* ------------------------------------------------------------------- Init
\* A run is one call of execute_adb_command.  Two families of runs are
\* explored: short package lists whose children print up to MaxLines lines
\* (so that reading their output can fail), and long package lists, of more
\* than one batch, whose children print nothing.
\* the command builder and the log handler, not in use
AuxIdle ==
    /\ built = <<>>
    /\ now = 1
    /\ files = <<>>
    /\ fsize = [n \in Stamps |-> 0]
    /\ current_file = 1
    /\ current_size = 0
    /\ hpc = "off"
    /\ emits = 0
    /\ removed = <<<<>>, <<>>>>

InitCommon ==
    /\ AuxIdle
    /\ pc = "resolve"
    /\ packages = <<>>
    /\ batch_size = 0
    /\ i = 0
    /\ batch = <<>>
    /\ futures = <<>>
    /\ j = 1
    /\ task = [t \in TaskIds |-> NoTask]
    /\ child = [t \in TaskIds |-> NoChild]
    /\ log = [t \in {Orch} \cup TaskIds |-> <<>>]
    /\ batches = <<>>
    /\ delays = 0

Init ==
    /\ max_workers \in 1..MaxWorkers
    /\ \/ /\ package_name = "all"
          /\ \/ /\ installed \in {SubSeq(AllPkgs, 1, n) : n \in 0..MaxPkgs}
                /\ child_lines = MaxLines
             \/ /\ installed \in {SubSeq(AllPkgs, 1, n) : n \in 0..MaxLong}
                /\ child_lines = 0
       \/ /\ package_name = AllPkgs[1]
          /\ installed = <<>>
          /\ child_lines = MaxLines
    /\ InitCommon

\* ------------------------------------------------- execute_adb_command
ResolveNoExpand ==
    /\ pc = "resolve"
    /\ packages' = <<package_name>>
    /\ log' = [log EXCEPT ![Orch] =
                 Append(@, Rec("INFO", "count", NoPkg, <<ToString(Len(packages'))>>))]
    /\ batch_size' = DefaultBatchSize
    /\ i' = 0
    /\ pc' = "loop"
    /\ UNCHANGED <<aux, package_name, installed, max_workers, child_lines, batch, futures, j,
                   task, child, batches, delays>>

\* lines 296-307: the package list, the count line, batch_size and delay
Resolve ==
    /\ pc = "resolve"
    /\ packages' = IF package_name = "all" THEN installed ELSE <<package_name>>
    /\ log' = [log EXCEPT ![Orch] =
                 Append(@, Rec("INFO", "count", NoPkg, <<ToString(Len(packages'))>>))]
    /\ batch_size' = DefaultBatchSize
    /\ i' = 0
    /\ pc' = "loop"
    /\ UNCHANGED <<aux, package_name, installed, max_workers, child_lines, batch, futures, j,
                   task, child, batches, delays>>

ExecutingLines(b) == [k \in 1..Len(b) |-> Rec("INFO", "executing", b[k], <<>>)]

LoopNextOffByOne ==
    /\ pc = "loop"
    /\ i <= Len(packages)
    /\ batch' = Slice(packages, i, i + batch_size)
    /\ batches' = Append(batches, batch')
    /\ log' = [log EXCEPT ![Orch] = @ \o ExecutingLines(batch')]
    /\ futures' = <<>>
    /\ j' = 1
    /\ pc' = IF batch' = <<>> THEN "sleep" ELSE "submit"
    /\ UNCHANGED <<aux, package_name, installed, max_workers, child_lines, packages,
                   batch_size, i, task, child, delays>>

\* lines 309-312: the loop test, the slice and the "executing" lines
LoopNext ==
    /\ pc = "loop"
    /\ i < Len(packages)
    /\ batch' = Slice(packages, i, i + batch_size)
    /\ batches' = Append(batches, batch')
    /\ log' = [log EXCEPT ![Orch] = @ \o ExecutingLines(batch')]
    /\ futures' = <<>>
    /\ j' = 1
    /\ pc' = "submit"
    /\ UNCHANGED <<aux, package_name, installed, max_workers, child_lines, packages, batch_size,
                   i, task, child, delays>>

\* line 309 when range() is exhausted, and the exit of the with block
LoopExit ==
    /\ pc = "loop"
    /\ i >= Len(packages)
    /\ \A t \in TaskIds : task[t].st \in {"none", "done"}
    /\ pc' = "returned"
    /\ UNCHANGED <<aux, package_name, installed, max_workers, child_lines, packages, batch_size,
                   i, batch, futures, j, task, child, log, batches, delays>>

SubmitSameTwice ==
    /\ pc = "submit"
    /\ j <= Len(batch)
    /\ task' = [task EXCEPT ![i + 1].st = "queued"]
    /\ futures' = Append(futures, i + 1)
    /\ IF j = Len(batch) THEN pc' = "join" /\ j' = 1
                         ELSE pc' = pc /\ j' = j + 1
    /\ UNCHANGED <<aux, package_name, installed, max_workers, child_lines, packages, batch_size,
                   i, batch, child, log, batches, delays>>

\* line 313: one executor.submit of the list comprehension
Submit ==
    /\ pc = "submit"
    /\ j <= Len(batch)
    /\ task' = [task EXCEPT ![i + j].st = "queued"]
    /\ futures' = Append(futures, i + j)
    /\ IF j = Len(batch) THEN pc' = "join" /\ j' = 1
                         ELSE pc' = pc /\ j' = j + 1
    /\ UNCHANGED <<aux, package_name, installed, max_workers, child_lines, packages, batch_size,
                   i, batch, child, log, batches, delays>>

JoinNoWait ==
    /\ pc = "join"
    /\ j <= Len(futures)
    /\ IF j = Len(futures) THEN pc' = "sleep" /\ j' = 1
                           ELSE pc' = pc /\ j' = j + 1
    /\ UNCHANGED <<aux, package_name, installed, max_workers, child_lines, packages,
                   batch_size, i, batch, futures, task, child, log, batches, delays>>

\* lines 314-315: one future.result()
Join ==
    /\ pc = "join"
    /\ j <= Len(futures)
    /\ task[futures[j]].st = "done"
    /\ IF task[futures[j]].exc # "none"
         THEN pc' = "raised" /\ j' = j
         ELSE IF j = Len(futures) THEN pc' = "sleep" /\ j' = 1
                                  ELSE pc' = pc /\ j' = j + 1
    /\ UNCHANGED <<aux, package_name, installed, max_workers, child_lines, packages, batch_size,
                   i, batch, futures, task, child, log, batches, delays>>

SleepNotAfterLast ==
    /\ pc = "sleep"
    /\ delays' = IF i + batch_size >= Len(packages) THEN delays ELSE delays + 1
    /\ i' = i + batch_size
    /\ pc' = "loop"
    /\ UNCHANGED <<aux, package_name, installed, max_workers, child_lines, packages,
                   batch_size, batch, futures, j, task, child, log, batches>>

\* line 316 and the step of range()
Sleep ==
    /\ pc = "sleep"
    /\ delays' = delays + 1
    /\ i' = i + batch_size
    /\ pc' = "loop"
    /\ UNCHANGED <<aux, package_name, installed, max_workers, child_lines, packages, batch_size,
                   batch, futures, j, task, child, log, batches>>

\* ---------------------------------------------------- run_monkey_command
CmdLines(t) ==
    << Rec("INFO", "cmd", NoPkg, BuildCmd(Device, ClassPath, PkgOf(t), Minutes, Throttle)),
       Rec("INFO", "params", NoPkg, <<ToString(Minutes), ToString(Throttle)>>) >>

\* what the try statement (lines 274, 290-293) does with an exception e
\* raised in its body: the worker's state, and the lines of its log
AfterRaise(tk, e) ==
    [tk EXCEPT !.st = "done",
               !.exc = IF Handler(e) = "escape" THEN e ELSE "none"]
LogRaise(lg, e) ==
    IF Handler(e) = "escape" THEN lg
    ELSE Append(lg, Rec("ERROR", Handler(e), NoPkg, <<e>>))

SameBatch(t, u) == (t - 1) \div batch_size = (u - 1) \div batch_size

StartUnlessSiblingFailed(t) ==
    /\ QueueHead(t)
    /\ WorkerAvailable
    /\ IF \E u \in TaskIds : u # t /\ SameBatch(t, u) /\ task[u].rc = 1
         THEN /\ task' = [task EXCEPT ![t].st = "done"]
              /\ UNCHANGED <<log, child>>
         ELSE \/ /\ task' = [task EXCEPT ![t].st = "drain"]
                 /\ log' = [log EXCEPT ![t] = @ \o CmdLines(t)]
                 /\ child' = [child EXCEPT ![t].alive = "running"]
              \/ /\ task' = [task EXCEPT ![t] = AfterRaise(@, "OSError")]
                 /\ log' = [log EXCEPT ![t] = LogRaise(@ \o CmdLines(t), "OSError")]
                 /\ UNCHANGED child
    /\ UNCHANGED <<aux, package_name, installed, max_workers, child_lines, pc, packages,
                   batch_size, i, batch, futures, j, batches, delays>>

\* lines 269-275: a worker takes the invocation, logs the command and the
\* parameters, and calls Popen, which starts the child or raises OSError
Start(t) ==
    /\ QueueHead(t)
    /\ WorkerAvailable
    /\ \/ /\ task' = [task EXCEPT ![t].st = "drain"]
          /\ log' = [log EXCEPT ![t] = @ \o CmdLines(t)]
          /\ child' = [child EXCEPT ![t].alive = "running"]
       \/ /\ task' = [task EXCEPT ![t] = AfterRaise(@, "OSError")]
          /\ log' = [log EXCEPT ![t] = LogRaise(@ \o CmdLines(t), "OSError")]
          /\ UNCHANGED child
    /\ UNCHANGED <<aux, package_name, installed, max_workers, child_lines, pc, packages,
                   batch_size, i, batch, futures, j, batches, delays>>

ReadLineBuffered(t) ==
    /\ task[t].st = "drain"
    /\ task[t].read < child[t].out
    /\ \/ /\ task' = [task EXCEPT ![t].read = @ + 1]
          /\ log' = [log EXCEPT ![t] =
                       IF task[t].read + 1 = child[t].out /\ child[t].alive = "exited"
                         THEN @ \o [k \in 1..child[t].out |->
                                      Rec("INFO", "line", NoPkg, LineText(k))]
                         ELSE @]
       \/ /\ task' = [task EXCEPT ![t] = AfterRaise(@, "UnicodeDecodeError")]
          /\ log' = [log EXCEPT ![t] = LogRaise(@, "UnicodeDecodeError")]
    /\ UNCHANGED <<aux, package_name, installed, max_workers, child_lines, pc, packages,
                   batch_size, i, batch, futures, j, child, batches, delays>>

\* lines 277-278: one iteration of "for line in process.stdout": the next
\* line is read and logged, or decoding it raises
ReadLine(t) ==
    /\ task[t].st = "drain"
    /\ task[t].read < child[t].out
    /\ \/ /\ task' = [task EXCEPT ![t].read = @ + 1]
          /\ log' = [log EXCEPT ![t] =
                       Append(@, Rec("INFO", "line", NoPkg, LineText(task[t].read + 1)))]
       \/ /\ task' = [task EXCEPT ![t] = AfterRaise(@, "UnicodeDecodeError")]
          /\ log' = [log EXCEPT ![t] = LogRaise(@, "UnicodeDecodeError")]
    /\ UNCHANGED <<aux, package_name, installed, max_workers, child_lines, pc, packages,
                   batch_size, i, batch, futures, j, child, batches, delays>>

\* line 277: the stream is at end of file, the for loop ends
ReadEOF(t) ==
    /\ task[t].st = "drain"
    /\ task[t].read = child[t].out
    /\ child[t].alive = "exited"
    /\ task' = [task EXCEPT ![t].st = "wait"]
    /\ UNCHANGED <<aux, package_name, installed, max_workers, child_lines, pc, packages,
                   batch_size, i, batch, futures, j, child, log, batches, delays>>

WaitLogsCompletionFirst(t) ==
    /\ task[t].st = "wait"
    /\ child[t].alive = "exited"
    /\ \E rc \in {0, 1} :
         /\ task' = [task EXCEPT ![t] =
                       IF rc # 0 THEN AfterRaise([@ EXCEPT !.rc = rc], "AttributeError")
                                 ELSE [@ EXCEPT !.st = "done", !.rc = rc]]
         /\ log' = [log EXCEPT ![t] =
                       IF rc # 0
                         THEN LogRaise(Append(@, Rec("INFO", "completed", PkgOf(t), <<>>)),
                                       "AttributeError")
                         ELSE Append(@, Rec("INFO", "completed", PkgOf(t), <<>>))]
    /\ UNCHANGED <<aux, package_name, installed, max_workers, child_lines, pc, packages,
                   batch_size, i, batch, futures, j, child, batches, delays>>

\* lines 281-288: process.wait() returns the exit status rc once the child
\* has exited; then the status is checked.  On a non-zero status
\* process.stderr.read() is called: process.stderr is None when stderr was
\* redirected to stdout.
Wait(t) ==
    /\ task[t].st = "wait"
    /\ child[t].alive = "exited"
    /\ \E rc \in {0, 1} :
       IF rc # 0
         THEN IF PopenStderr = "None"
                THEN /\ task' = [task EXCEPT ![t] =
                                   AfterRaise([@ EXCEPT !.rc = rc], "AttributeError")]
                     /\ log' = [log EXCEPT ![t] = LogRaise(@, "AttributeError")]
                ELSE /\ task' = [task EXCEPT ![t] = [@ EXCEPT !.st = "done", !.rc = rc]]
                     /\ log' = [log EXCEPT ![t] =
                                  Append(@, Rec("ERROR", "run_error", PkgOf(t), <<"stderr">>))]
         ELSE /\ task' = [task EXCEPT ![t] = [@ EXCEPT !.st = "done", !.rc = rc]]
              /\ log' = [log EXCEPT ![t] =
                           Append(@, Rec("INFO", "completed", PkgOf(t), <<>>))]
    /\ UNCHANGED <<aux, package_name, installed, max_workers, child_lines, pc, packages,
                   batch_size, i, batch, futures, j, child, batches, delays>>

\* ------------------------------------------------------- child processes
\* the child writes one more line to its output
ChildWrite(t) ==
    /\ child[t].alive = "running"
    /\ child[t].out < child_lines
    /\ child' = [child EXCEPT ![t].out = @ + 1]
    /\ UNCHANGED <<aux, package_name, installed, max_workers, child_lines, pc, packages,
                   batch_size, i, batch, futures, j, task, log, batches, delays>>

\* the child exits; its end of the pipe closes
ChildExit(t) ==
    /\ child[t].alive = "running"
    /\ child' = [child EXCEPT ![t].alive = "exited"]
    /\ UNCHANGED <<aux, package_name, installed, max_workers, child_lines, pc, packages,
                   batch_size, i, batch, futures, j, task, log, batches, delays>>

Next ==
    \/ Resolve
    \/ LoopNext
    \/ LoopExit
    \/ Submit
    \/ Join
    \/ Sleep
    \/ \E t \in TaskIds : Start(t)
    \/ \E t \in TaskIds : ReadLine(t)
    \/ \E t \in TaskIds : ReadEOF(t)
    \/ \E t \in TaskIds : Wait(t)
    \/ \E t \in TaskIds : ChildWrite(t)
    \/ \E t \in TaskIds : ChildExit(t)

Spec == Init /\ [][Next]_vars

\* --------------------------------------------- the batching loop on its own
\* The loop of lines 309-316 with the executor left out: what it does to
\* packages, i, batch and batches, for any batch size.
SmallPkgs == {AllPkgs[1], AllPkgs[2]}
SeqsUpTo(S, n) == UNION {[1..m -> S] : m \in 0..n}

PartInit ==
    /\ AuxIdle
    /\ package_name = "all"
    /\ installed \in SeqsUpTo(SmallPkgs, MaxN)
    /\ max_workers = 1
    /\ child_lines = 0
    /\ packages = installed
    /\ batch_size \in 1..MaxB
    /\ pc = "loop"
    /\ i = 0
    /\ batch = <<>>
    /\ futures = <<>>
    /\ j = 1
    /\ task = [t \in TaskIds |-> NoTask]
    /\ child = [t \in TaskIds |-> NoChild]
    /\ log = [t \in {Orch} \cup TaskIds |-> <<>>]
    /\ batches = <<>>
    /\ delays = 0

\* lines 309-310 and the step of range(): one iteration
PartStep ==
    /\ pc = "loop"
    /\ i < Len(packages)
    /\ batch' = Slice(packages, i, i + batch_size)
    /\ batches' = Append(batches, batch')
    /\ i' = i + batch_size
    /\ UNCHANGED <<aux, package_name, installed, max_workers, child_lines, pc,
                   packages, batch_size, futures, j, task, child, log, delays>>

\* line 309 when range() is exhausted
PartExit ==
    /\ pc = "loop"
    /\ i >= Len(packages)
    /\ pc' = "returned"
    /\ UNCHANGED <<aux, package_name, installed, max_workers, child_lines, packages,
                   batch_size, i, batch, futures, j, task, child, log, batches,
                   delays>>

PartNext == PartStep \/ PartExit

SpecPart == PartInit /\ [][PartNext]_vars

\* ================================================================ claims
Tasks == 1..Len(packages)
BatchOf(t) == (t - 1) \div batch_size
Done(t) == task[t].st = "done"
LastLine(t) == log[t][Len(log[t])]
HasLine(t, kind) == \E k \in 1..Len(log[t]) : log[t][k].kind = kind
ExecutingLogged(t) ==
    \E k \in 1..Len(log[Orch]) :
        log[Orch][k].kind = "executing" /\ log[Orch][k].pkg = packages[t]
\* something of invocation u is visible: a log line, a submit, a start
Visible(u) == task[u].st # "none" \/ log[u] # <<>> \/ ExecutingLogged(u)
SpawnFailed(t) == Done(t) /\ child[t].alive = "none" /\ log[t] # <<>>
ExitedNonZero(t) == Done(t) /\ task[t].rc = 1
BatchTasks(b) == {t \in Tasks : BatchOf(t) = b}
BatchFinished(b) == BatchTasks(b) # {} /\ \A t \in BatchTasks(b) : Done(t)

\* C1: nothing of batch N+1 (no submit, no start, no log line) is visible
\* before every invocation of batch N has completed.
C1_BatchBarrier ==
    pc # "resolve" =>
      \A t \in Tasks : \A u \in Tasks :
          (BatchOf(u) = BatchOf(t) + 1 /\ Visible(u)) => Done(t)

C1_Witness ==
    /\ Len(batches) = 2
    /\ \E t \in BatchTasks(0) : ExitedNonZero(t)
    /\ \E t \in BatchTasks(0) : Done(t) /\ task[t].rc = 0
    /\ \E u \in BatchTasks(1) : task[u].st = "drain"

\* C2: in a finished batch of 4 where exactly one command exited with a
\* non-zero status and no sibling failed on its own, each of the 3 siblings
\* ran and ended with its INFO completion line.
C2_FailureIsolation ==
    pc # "resolve" =>
      \A a \in Tasks :
        LET b == BatchOf(a)
            sib == BatchTasks(b) \ {a}
        IN (/\ Cardinality(BatchTasks(b)) = 4
            /\ BatchFinished(b)
            /\ task[a].rc = 1
            /\ \A u \in sib : task[u].rc # 1 /\ ~HasLine(u, "unknown")
                              /\ ~HasLine(u, "exec_failed"))
           => \A u \in sib :
                 /\ log[u] # <<>>
                 /\ LastLine(u) = Rec("INFO", "completed", packages[u], <<>>)
                 /\ child[u].alive = "exited"

C2_Witness ==
    /\ pc = "sleep"
    /\ Len(batch) = 4
    /\ \E a \in BatchTasks(0) :
         /\ task[a].rc = 1
         /\ \A u \in BatchTasks(0) \ {a} :
              Done(u) /\ LastLine(u).kind = "completed"

\* C3 (as claimed): at most max_workers spawned children have not exited.
C3_PoolBoundsChildren ==
    Cardinality({t \in TaskIds : child[t].alive = "running"}) <= max_workers

\* C5: no exception escapes an invocation, no future.result() raises, and
\* when the runner returns every batch has been processed.
C5_NoAbort ==
    /\ pc # "raised"
    /\ \A t \in TaskIds : task[t].exc = "none"
    /\ pc = "returned" =>
         /\ \A t \in Tasks : Done(t)
         /\ Len(batches) = CeilDiv(Len(packages), batch_size)
         /\ Concat(batches) = packages

C5_Witness ==
    /\ pc = "returned"
    /\ Len(batches) = 2
    /\ \E t \in BatchTasks(0) : SpawnFailed(t)
    /\ \E t \in BatchTasks(0) : ExitedNonZero(t)
    /\ \E t \in BatchTasks(1) : Done(t)

\* C6 (as claimed): an invocation whose child exited with a non-zero status
\* ends with an ERROR line that names the package and carries the captured
\* error text.
C6_CommandFailedReported ==
    \A t \in TaskIds :
        ExitedNonZero(t) =>
            /\ LastLine(t).level = "ERROR"
            /\ LastLine(t).kind = "run_error"
            /\ LastLine(t).pkg = packages[t]

\* C7 (as claimed): a spawn failure and a non-zero exit are logged as ERROR
\* lines of different kinds.
C7_SpawnFailedDistinct ==
    \A t \in TaskIds : \A u \in TaskIds :
        (SpawnFailed(t) /\ ExitedNonZero(u)) =>
            LastLine(t).kind # LastLine(u).kind

\* C8 (as claimed): with an empty package list the runner forms no batch,
\* submits nothing, never sleeps and logs nothing.
C8_EmptyInputSilent ==
    (pc # "resolve" /\ packages = <<>>) =>
        /\ pc \in {"loop", "returned"}
        /\ batches = <<>>
        /\ \A t \in TaskIds : task[t].st = "none"
        /\ delays = 0
        /\ \A t \in {Orch} \cup TaskIds : log[t] = <<>>

\* C8 (amended): with an empty package list the runner forms no batch,
\* submits nothing, never sleeps, and logs exactly one line, the package
\* count line reporting 0 packages.
C8_EmptyInputCountLineOnly ==
    (pc # "resolve" /\ packages = <<>>) =>
        /\ pc \in {"loop", "returned"}
        /\ batches = <<>>
        /\ \A t \in TaskIds : task[t].st = "none" /\ child[t].alive = "none"
        /\ delays = 0
        /\ log[Orch] = <<Rec("INFO", "count", NoPkg, <<"0">>)>>
        /\ \A t \in TaskIds : log[t] = <<>>

C8_Witness == pc = "returned" /\ packages = <<>> /\ package_name = "all"

\* C9: one delay per batch, after that batch's join and before the next
\* batch is submitted; k batches make k delays; no invocation is queued or
\* running during a delay.
C9_DelayPlacement ==
    /\ pc = "sleep" =>
         /\ \A t \in TaskIds : task[t].st \in {"none", "done"}
         /\ BatchFinished(Len(batches) - 1)
    /\ delays = Len(batches) - (IF pc \in {"submit", "join", "sleep"} THEN 1 ELSE 0)
    /\ pc = "returned" => delays = CeilDiv(Len(packages), batch_size)
    /\ \A t \in Tasks : task[t].st # "none" => delays >= BatchOf(t)

C9_Witness ==
    /\ pc = "returned"
    /\ Len(batches) = 2
    /\ delays = 2

\* C10: when the batch is no larger than the pool, the invocation at the
\* head of the queue can always start at once, whatever its siblings do.
C10_NoWaitForSibling ==
    \A t \in TaskIds :
        (QueueHead(t) /\ Len(batch) <= max_workers) => ENABLED Start(t)

C10_Witness ==
    /\ Len(batch) > 1
    /\ Len(batch) <= max_workers
    /\ pc = "join"
    /\ \A k \in 1..Len(futures) :
          /\ task[futures[k]].st = "drain"
          /\ child[futures[k]].alive = "running"

\* C4: when the loop ends, the batches number ceil(N/B), each has between 1
\* and B elements, and put end to end they are the input list.
C4_Partition ==
    pc = "returned" =>
        /\ Len(batches) = CeilDiv(Len(packages), batch_size)
        /\ \A k \in 1..Len(batches) :
              Len(batches[k]) >= 1 /\ Len(batches[k]) <= batch_size
        /\ Concat(batches) = packages

C4_Witness ==
    /\ pc = "returned"
    /\ Len(packages) > batch_size
    /\ Len(packages) % batch_size # 0
    /\ batch_size > 1
    /\ \E k \in 2..Len(packages) : packages[k] = packages[1]

\* ---------------------------------------------------------------- C11..
IsLine(r) == r.kind = "line"
LineRecs(t) == SelectSeq(log[t], IsLine)
OutcomeKinds == {"completed", "run_error", "exec_failed", "unknown"}
IsOutcome(r) == r.kind \in OutcomeKinds
OutcomeRecs(t) == SelectSeq(log[t], IsOutcome)
\* the k-th output line without its terminator
LineBody(k) == SubSeq(RawLine(k), 1, Len(RawLine(k)) - 1)
\* the worker of t has read its child's output to the end
Drained(t) == task[t].st = "wait" \/ task[t].rc # -1
OutcomeIsLast(t) ==
    \A k \in 1..Len(log[t]) : IsOutcome(log[t][k]) => k = Len(log[t])

OrchStep == Resolve \/ LoopNext \/ LoopExit \/ Submit \/ Join \/ Sleep
Fairness ==
    /\ WF_vars(OrchStep)
    /\ \A t \in TaskIds :
          /\ WF_vars(Start(t))
          /\ WF_vars(ReadLine(t))
          /\ WF_vars(ReadEOF(t))
          /\ WF_vars(Wait(t))
          /\ WF_vars(ChildExit(t))
SpecLive == Init /\ [][Next]_vars /\ Fairness

\* first half of C12: when every child eventually exits, the runner returns
C12_EventuallyReturns == <>(pc = "returned")

\* C12, second half (as claimed): while a spawned child has not exited, its
\* worker is not free, the join of its batch has not completed, no
\* invocation of a later batch has started and the runner has not returned.
C12_HungChildStalls ==
    \A t \in TaskIds :
        child[t].alive = "running" =>
            /\ task[t].st \in {"drain", "wait"}
            /\ pc \in {"submit", "join"}
            /\ \A u \in Tasks : BatchOf(u) > BatchOf(t) => task[u].st = "none"

\* ---------------------------------------------------------------- C13
\* The session of the __main__ block (lines 379-400), up to the call of
\* execute_adb_command.  Its log lines go to log[Orch].
SessionInit ==
    /\ AuxIdle
    /\ package_name = "all"
    /\ max_workers = 1
    /\ \/ /\ installed \in {SubSeq(AllPkgs, 1, n) : n \in 0..MaxPkgs}
          /\ child_lines = MaxLines
       \/ /\ installed \in {SubSeq(AllPkgs, 1, n) : n \in 0..MaxLong}
          /\ child_lines = 0
    /\ pc = "main"
    /\ packages = <<>>
    /\ batch_size = 0
    /\ i = 0
    /\ batch = <<>>
    /\ futures = <<>>
    /\ j = 1
    /\ task = [t \in TaskIds |-> NoTask]
    /\ child = [t \in TaskIds |-> NoChild]
    /\ log = [t \in {Orch} \cup TaskIds |-> <<>>]
    /\ batches = <<>>
    /\ delays = 0

MainLog(recs) == log' = [log EXCEPT ![Orch] = @ \o recs]

\* lines 384-388: check_device_online, and exit(0) when it returns False
MainCheck ==
    /\ pc = "main"
    /\ \/ /\ pc' = "main_push"
          /\ UNCHANGED log
       \/ /\ pc' = "exited"
          /\ MainLog(<<Rec("ERROR", "offline", NoPkg, <<Device>>)>>)
       \/ /\ pc' = "exited"
          /\ MainLog(<<Rec("ERROR", "check_error", NoPkg, <<>>),
                       Rec("ERROR", "offline", NoPkg, <<Device>>)>>)
    /\ UNCHANGED <<aux, package_name, installed, max_workers, child_lines, packages,
                   batch_size, i, batch, futures, j, task, child, batches, delays>>

\* line 390 with lines 318-342: push_library returns True or False; the
\* call statement drops the value
MainPush ==
    /\ pc = "main_push"
    /\ \/ MainLog(<<Rec("INFO", "push_ok", NoPkg, <<>>)>>)
       \/ MainLog(<<Rec("ERROR", "push_failed", NoPkg, <<>>)>>)
    /\ pc' = "main_wake"
    /\ UNCHANGED <<aux, package_name, installed, max_workers, child_lines, packages,
                   batch_size, i, batch, futures, j, task, child, batches, delays>>

\* lines 391-393 with lines 195-253: wake_up_and_unlock, then the call of
\* execute_adb_command
MainWake ==
    /\ pc = "main_wake"
    /\ \/ /\ MainLog(<<Rec("INFO", "awake", NoPkg, <<Device>>),
                       Rec("INFO", "unlock_ok", NoPkg, <<Device>>)>>)
          /\ pc' = "resolve"
       \/ /\ MainLog(<<Rec("INFO", "awake", NoPkg, <<Device>>),
                       Rec("ERROR", "unlock_error", NoPkg, <<>>)>>)
          /\ pc' = "resolve"
       \/ /\ MainLog(<<Rec("ERROR", "resolution_error", NoPkg, <<>>),
                       Rec("INFO", "awake", NoPkg, <<Device>>),
                       Rec("ERROR", "unlock_invalid", NoPkg, <<Device>>)>>)
          /\ pc' = "resolve"
       \/ /\ MainLog(<<Rec("ERROR", "resolution_error", NoPkg, <<>>)>>)
          /\ pc' = "crashed"
    /\ UNCHANGED <<aux, package_name, installed, max_workers, child_lines, packages,
                   batch_size, i, batch, futures, j, task, child, batches, delays>>

SessionNext == MainCheck \/ MainPush \/ MainWake \/ Next

SpecSession == SessionInit /\ [][SessionNext]_vars

RunnerPcs == {"resolve", "loop", "submit", "join", "sleep", "returned", "raised"}
OrchHasLine(kind) == \E k \in 1..Len(log[Orch]) : log[Orch][k].kind = kind

\* C13 (as claimed): the runner is invoked only when the device is online
\* and the library push succeeded; otherwise the session ends before the
\* runner is invoked and nothing is submitted.
C13_PreconditionsShortCircuit ==
    /\ pc \in RunnerPcs =>
          /\ ~OrchHasLine("offline")
          /\ OrchHasLine("push_ok")
          /\ ~OrchHasLine("push_failed")
    /\ (OrchHasLine("offline") \/ OrchHasLine("push_failed")) =>
          \A t \in TaskIds : task[t].st = "none"

\* ---------------------------------------------------------------- C14
\* C14 (as claimed): the value the runner receives is never the sentinel
\* "all"; it is always a concrete package already.
C14_RunnerNeverSeesSentinel ==
    pc \in RunnerPcs => package_name # "all"

\* the package list the runner is to work on
Expanded == IF package_name = "all" THEN installed ELSE <<package_name>>

\* C14 (amended): the runner itself interprets the sentinel: given "all" it
\* takes the installed-package list, given anything else the one package;
\* what it batches, logs and runs are those concrete packages only.
C14_RunnerExpandsSentinel ==
    pc \in (RunnerPcs \ {"resolve"}) =>
        /\ packages = Expanded
        /\ \A k \in 1..Len(batches) : \A m \in 1..Len(batches[k]) :
              \E n \in 1..Len(Expanded) : batches[k][m] = Expanded[n]
        /\ \A t \in TaskIds :
              log[t] # <<>> =>
                 /\ t <= Len(Expanded)
                 /\ log[t][1] = Rec("INFO", "cmd", NoPkg,
                        BuildCmd(Device, ClassPath, Expanded[t], Minutes, Throttle))
        /\ \A k \in 1..Len(log[Orch]) :
              log[Orch][k].kind = "executing" =>
                 \E n \in 1..Len(Expanded) : log[Orch][k].pkg = Expanded[n]

C14_Witness ==
    /\ package_name = "all"
    /\ pc = "returned"
    /\ Len(installed) >= 2
    /\ \A t \in Tasks : Done(t) /\ log[t] # <<>>

\* ---------------------------------------------------------------- C15
\* The command builder on its own: commands are built one after the other
\* for arguments drawn from small sets.
runner == <<package_name, installed, max_workers, child_lines, pc, packages,
            batch_size, i, batch, futures, j, task, child, log, batches, delays>>

RunnerIdle ==
    /\ package_name = "all"
    /\ installed = <<>>
    /\ max_workers = 1
    /\ child_lines = 0
    /\ pc = "off"
    /\ packages = <<>>
    /\ batch_size = 0
    /\ i = 0
    /\ batch = <<>>
    /\ futures = <<>>
    /\ j = 1
    /\ task = [t \in TaskIds |-> NoTask]
    /\ child = [t \in TaskIds |-> NoChild]
    /\ log = [t \in {Orch} \cup TaskIds |-> <<>>]
    /\ batches = <<>>
    /\ delays = 0

CmdDevices == {"D1", Device}
CmdClassPaths == {"A:B:C", ClassPath}
CmdPackages == {"com.x", AllPkgs[1]}
CmdMinutes == {Minutes, Throttle}
CmdThrottles == {Throttle, Minutes}

CmdInit == RunnerIdle /\ AuxIdle

\* line 269: one evaluation of the f-string
Build ==
    /\ Len(built) < MaxBuilds
    /\ \E d \in CmdDevices, c \in CmdClassPaths, p \in CmdPackages,
          m \in CmdMinutes, th \in CmdThrottles :
         built' = Append(built,
            [args |-> [device |-> d, class_path |-> c, package |-> p,
                       minutes |-> m, throttle |-> th],
             out |-> BuildCmd(d, c, p, m, th)])
    /\ UNCHANGED <<runner, now, files, fsize, current_file, current_size, hpc,
                   emits, removed>>

SpecCmd == CmdInit /\ [][Build]_vars

\* piece v comes right after piece key in the command o
Follows(o, key, v) == \E k \in 1..(Len(o) - 1) : o[k] = key /\ o[k + 1] = v

IsCmd(r) == r.kind = "cmd"
IsExecuting(r) == r.kind = "executing"
ExecutingPkgs ==
    LET e == SelectSeq(log[Orch], IsExecuting)
    IN  [k \in 1..Len(e) |-> e[k].pkg]

\* C16: when the runner returns, every package of the list has had exactly
\* one invocation started and completed, nothing else was run, and the
\* batches were formed and announced in input order.
C16_ExactlyOnce ==
    pc = "returned" =>
        /\ \A t \in Tasks :
              /\ Done(t)
              /\ task[t].exc = "none"
              /\ SelectSeq(log[t], IsCmd) =
                   <<Rec("INFO", "cmd", NoPkg,
                         BuildCmd(Device, ClassPath, packages[t], Minutes, Throttle))>>
        /\ \A t \in TaskIds \ Tasks : task[t].st = "none" /\ log[t] = <<>>
        /\ Concat(batches) = packages
        /\ ExecutingPkgs = packages

C16_Witness ==
    /\ pc = "returned"
    /\ Len(packages) = MaxLong
    /\ Len(batches) >= 2
    /\ \E t \in Tasks : ExitedNonZero(t)
    /\ \E t \in Tasks : SpawnFailed(t)

\* ---------------------------------------------------------------- C17
ReadFailed(t) ==
    Done(t) /\ child[t].alive # "none" /\ ~Drained(t)

\* C17: an invocation that has ended has logged exactly one outcome line,
\* as its last line: the INFO completion line or one ERROR line; one that
\* has not ended has logged none; the completion line is logged only after
\* an exit status of 0.
C17_OneOutcomeLine ==
    \A t \in TaskIds :
        /\ Done(t) =>
              /\ Len(OutcomeRecs(t)) = 1
              /\ IsOutcome(LastLine(t))
              /\ LastLine(t).level = (IF LastLine(t).kind = "completed"
                                        THEN "INFO" ELSE "ERROR")
              /\ LastLine(t).kind = "completed" <=> task[t].rc = 0
        /\ ~Done(t) => Len(OutcomeRecs(t)) = 0
        /\ HasLine(t, "completed") => child[t].alive = "exited"

C17_Witness ==
    \E t \in Tasks : \E u \in Tasks :
        /\ ReadFailed(t)
        /\ ExitedNonZero(u)
        /\ pc = "returned"

\* ------------------------------------------- TimedRotatingFileHandler
\* The log files are named by their timestamp, which has a resolution of
\* one second: a file is identified here by the second of its name.  A
\* record is identified by the size of its formatted text plus the newline.
InSeq(x, q) == \E k \in 1..Len(q) : q[k] = x

RECURSIVE Ascending(_)
Ascending(S) ==
    IF S = {} THEN <<>>
    ELSE LET m == CHOOSE x \in S : \A y \in S : x <= y
         IN  <<m>> \o Ascending(S \ {m})

\* lines 46-50: the file name made from the current time
GetNewFilename == now

\* lines 52-56: logging.FileHandler(filename) opens the file for appending
\* and creates it when it does not exist
CreateFileHandler(fs, n) == IF InSeq(n, fs) THEN fs ELSE Append(fs, n)

\* lines 65-70: the files sorted by getctime, the oldest popped and removed
\* while there are more than maxFiles
KeptOldest(fs) ==
    IF Len(fs) > MaxFiles THEN SubSeq(fs, 1, MaxFiles) ELSE fs
Kept(fs) ==
    IF Len(fs) > MaxFiles THEN SubSeq(fs, Len(fs) - MaxFiles + 1, Len(fs)) ELSE fs
Gone(fs) == SelectSeq(fs, LAMBDA n : ~InSeq(n, Kept(fs)))

\* a write changes the file's ctime: it becomes the youngest
Touch(fs, n) ==
    IF InSeq(n, fs) THEN SelectSeq(fs, LAMBDA m : m # n) \o <<n>> ELSE fs

LogInit ==
    /\ RunnerIdle
    /\ built = <<>>
    /\ now \in Stamps
    /\ \E S \in SUBSET (1..(now - 1)) :
          /\ files = Ascending(S)
          /\ fsize = [n \in Stamps |-> IF n \in S THEN 1 ELSE 0]
    /\ current_file = 1
    /\ current_size = 0
    /\ hpc = "new"
    /\ emits = 0
    /\ removed = <<<<>>, <<>>>>

\* lines 33-44: __init__
Construct ==
    /\ hpc = "new"
    /\ LET f1 == CreateFileHandler(files, GetNewFilename)
       IN  /\ current_file' = GetNewFilename
           /\ current_size' = 0
           /\ files' = Kept(f1)
           /\ removed' = <<f1, Gone(f1)>>
           /\ fsize' = [n \in Stamps |-> IF InSeq(n, Gone(f1)) THEN 0 ELSE fsize[n]]
    /\ hpc' = "ready"
    /\ UNCHANGED <<runner, built, now, emits>>

\* lines 73-89: emit of a record of msg_size bytes
Emit(msg_size) ==
    /\ hpc = "ready"
    /\ emits < MaxEmits
    /\ LET rotate == current_size + msg_size > MaxBytes
           cf == IF rotate THEN GetNewFilename ELSE current_file
           f1 == IF rotate THEN CreateFileHandler(files, cf) ELSE files
           f2 == IF rotate THEN Kept(f1) ELSE f1
           gone == IF rotate THEN Gone(f1) ELSE <<>>
       IN  /\ current_file' = cf
           /\ current_size' = (IF rotate THEN 0 ELSE current_size) + msg_size
           /\ files' = Touch(f2, cf)
           /\ fsize' = [n \in Stamps |->
                          (IF InSeq(n, gone) THEN 0 ELSE fsize[n])
                          + (IF n = cf THEN msg_size ELSE 0)]
           /\ removed' = IF rotate THEN <<f1, gone>> ELSE removed
    /\ emits' = emits + 1
    /\ UNCHANGED <<runner, built, now, hpc>>

\* the clock reaches the next second
Tick ==
    /\ hpc = "ready"
    /\ now < MaxTime
    /\ now' = now + 1
    /\ UNCHANGED <<runner, built, files, fsize, current_file, current_size,
                   hpc, emits, removed>>

LogNext == Construct \/ (\E sz \in 1..MaxBytes : Emit(sz)) \/ Tick

SpecLog == LogInit /\ [][LogNext]_vars

\* ---------------------------------------------------------------- C18
\* C18 (as claimed): with records of at most maxBytes each, no log file
\* holds more than maxBytes, and current_size is the number of bytes the
\* active file holds.
C18_SizeBound ==
    hpc = "ready" =>
        /\ \A n \in Stamps : fsize[n] <= MaxBytes
        /\ current_size = fsize[current_file]

\* ---------------------------------------------------------------- C19
\* C19: once the handler is constructed there are at most maxFiles log
\* files, the files deleted by the latest clean-up were the oldest ones,
\* and the file being written exists and was not among them.
C19_RetentionBound ==
    hpc = "ready" =>
        /\ Len(files) <= MaxFiles
        /\ InSeq(current_file, files)
        /\ removed[2] = SubSeq(removed[1], 1, Len(removed[2]))
        /\ ~InSeq(current_file, removed[2])
        /\ \A n \in Stamps : InSeq(n, removed[2]) => ~InSeq(n, files)

C19_Witness ==
    /\ hpc = "ready"
    /\ emits = MaxEmits
    /\ removed[2] # <<>>
    /\ removed[1][Len(removed[1])] = current_file
    /\ Len(files) = MaxFiles
    /\ fsize[current_file] > 0
====
